---- MODULE Spec2Model ----
(***************************************************************************)
(* Model of src/src/transactions/social.ts: the social transaction         *)
(* operations (profile, post, follow, diamonds, like, messages), their     *)
(* metadata builders and the sendMessage routing convenience function.     *)
(*                                                                         *)
(* One call is in flight at a time (calls share no state, spec.md 5).      *)
(* Every awaited collaborator (guardTxPermission, checkPartyAccessGroups,  *)
(* identity.encryptMessage, handleSignAndSubmit, constructBalanceModelTx)  *)
(* is a suspension point: the action that makes the call ends there, and   *)
(* a separate action delivers the collaborator's answer, which the         *)
(* environment chooses.                                                    *)
(*                                                                         *)
(* Text values that the code transforms (message text, hex strings, JSON)  *)
(* are sequences of Unicode code points; names that the code only compares *)
(* or passes on (keys, endpoints, group names) are TLA+ strings.           *)
(***************************************************************************)
EXTENDS Integers, Sequences, FiniteSets, TLC

\* ------------------------------------------------------------------ bounds

\* Longest message text, in code points.
MaxMsgLen == 2
\* Longest TransactionFees list.
MaxFees == 2
\* Largest fee getTxnWithFee returns.
MaxFeeNanos == 2
\* Largest DiamondLevel.
MaxDiamondLevel == 2

\* ------------------------------------------------------------ text helpers

RECURSIVE Concat(_)
\* Concatenation of a sequence of sequences.
Concat(ss) ==
  IF ss = <<>> THEN <<>> ELSE Head(ss) \o Concat(Tail(ss))

RECURSIVE Join(_, _)
\* The sequences of ss, with sep between consecutive ones.
Join(ss, sep) ==
  IF ss = <<>> THEN <<>>
  ELSE IF Len(ss) = 1 THEN Head(ss)
  ELSE Head(ss) \o sep \o Join(Tail(ss), sep)

\* All sequences over S of length at most n.
SeqsUpTo(S, n) == UNION {[1..k -> S] : k \in 0..n}

\* A JavaScript value that may be undefined.
Some(v) == [present |-> TRUE, v |-> v]
Undefined == [present |-> FALSE, v |-> <<>>]

\* JavaScript truthiness of an optional string: undefined and "" are falsy.
Truthy(s) == s.present /\ s.v # <<>>

\* TextEncoder.encode / encodeUTF8ToBytes of one code point.
UTF8Bytes(cp) ==
  IF cp < 128 THEN <<cp>>
  ELSE IF cp < 2048 THEN <<192 + (cp \div 64), 128 + (cp % 64)>>
  ELSE IF cp < 65536
    THEN <<224 + (cp \div 4096), 128 + ((cp \div 64) % 64), 128 + (cp % 64)>>
  ELSE <<240 + (cp \div 262144), 128 + ((cp \div 4096) % 64),
         128 + ((cp \div 64) % 64), 128 + (cp % 64)>>

\* encodeUTF8ToBytes(str): the UTF-8 bytes of a string.
encodeUTF8ToBytes(str) ==
  Concat([i \in 1..Len(str) |-> UTF8Bytes(str[i])])

\* The code point of the lower-case hex digit of n (0..15).
HexDigit(n) == IF n < 10 THEN 48 + n ELSE 87 + n

\* ecUtils.bytesToHex: two lower-case hex digits per byte.
bytesToHex(bytes) ==
  Concat([i \in 1..Len(bytes) |->
            <<HexDigit(bytes[i] \div 16), HexDigit(bytes[i] % 16)>>])

\* A variant that takes the low byte of each code point instead of its
\* UTF-8 bytes.
hexEncodeLowBytes(plainText) ==
  bytesToHex([i \in 1..Len(plainText) |-> plainText[i] % 256])

\* hexEncodePlainText (social.ts 646-650).
hexEncodePlainText(plainText) == bytesToHex(encodeUTF8ToBytes(plainText))

\* Is c the code point of a hex digit (0-9, a-f, A-F)?
IsHexDigit(c) ==
  \/ c \in 48..57
  \/ c \in 97..102
  \/ c \in 65..70

\* The value of a hex digit.
HexValue(c) ==
  IF c \in 48..57 THEN c - 48
  ELSE IF c \in 97..102 THEN c - 87
  ELSE c - 55

\* Does hexToBytes accept hex (even length, hex digits only)?
HexWellFormed(hex) ==
  /\ Len(hex) % 2 = 0
  /\ \A i \in 1..Len(hex) : IsHexDigit(hex[i])

\* hexToBytes(hex) from @noble/hashes: the bytes of a well-formed hex string;
\* it throws on a malformed one, which callers test with HexWellFormed.
hexToBytes(hex) ==
  [i \in 1..(Len(hex) \div 2) |->
     16 * HexValue(hex[2 * i - 1]) + HexValue(hex[2 * i])]

RECURSIVE uvarint64ToBuf(_)
\* uvarint64ToBuf(n): unsigned variable-length encoding, 7 bits per byte,
\* low group first, high bit set on every byte but the last.
uvarint64ToBuf(n) ==
  IF n < 128 THEN <<n>>
  ELSE <<128 + (n % 128)>> \o uvarint64ToBuf(n \div 128)

\* ------------------------------------------------- numbers beyond 2^31 - 1

\* A non-negative integer below 2^61 as hi * 10^9 + lo with 0 <= lo < 10^9:
\* nanosecond timestamps do not fit the model checker's 32-bit integers.
Big(hi, lo) == [hi |-> hi, lo |-> lo]

\* a < b.
BigLess(a, b) == a.hi < b.hi \/ (a.hi = b.hi /\ a.lo < b.lo)

\* a + n for a small n >= 0.
BigAdd(a, n) ==
  LET l == a.lo + n
  IN  Big(a.hi + (l \div 10^9), l % 10^9)

\* 2^53, 2^54, ..., 2^60: from each of these on, the spacing of the doubles
\* doubles (2, 4, ..., 256).
PowersOfTwo ==
  << Big(9007199, 254740992), Big(18014398, 509481984),
     Big(36028797, 18963968), Big(72057594, 37927936),
     Big(144115188, 75855872), Big(288230376, 151711744),
     Big(576460752, 303423488), Big(1152921504, 606846976) >>

\* The IEEE-754 double nearest to the integer v (ties to even), which is what
\* a JavaScript Number holds.  A double has 53 significant bits: below 2^53
\* every integer is exact; in [2^k, 2^(k+1)) only multiples of 2^(k-52) are.
\* These spacings (2..256) divide 10^9, so v modulo them is lo modulo them.
ToNumber(v) ==
  LET above == Cardinality({i \in 1..Len(PowersOfTwo) : ~BigLess(v, PowersOfTwo[i])})
      ulp   == 2^above
      r     == v.lo % ulp
      down  == Big(v.hi, v.lo - r)
      odd   == ((down.lo % (2 * ulp)) \div ulp) = 1
  IN  IF 2 * r < ulp THEN down
      ELSE IF 2 * r > ulp THEN BigAdd(down, ulp)
      ELSE IF odd THEN BigAdd(down, ulp)
      ELSE down

RECURSIVE ParseDigits(_)
\* The integer a string of decimal digits (at most 9 of them) denotes.
ParseDigits(str) ==
  IF str = <<>> THEN 0
  ELSE 10 * ParseDigits(SubSeq(str, 1, Len(str) - 1)) + (str[Len(str)] - 48)

\* The mathematical integer a string of decimal digits denotes.
DecimalValue(str) ==
  LET n == Len(str)
  IN  IF n <= 9 THEN Big(0, ParseDigits(str))
      ELSE Big(ParseDigits(SubSeq(str, 1, n - 9)),
               ParseDigits(SubSeq(str, n - 8, n)))

\* parseInt(str) on a string of decimal digits: the Number nearest to the
\* integer the digits denote.
parseInt(str) == ToNumber(DecimalValue(str))

RECURSIVE DigitsOf(_)
\* The decimal digits of n > 0, as code points; <<>> for 0.
DigitsOf(n) ==
  IF n = 0 THEN <<>> ELSE DigitsOf(n \div 10) \o <<48 + (n % 10)>>

\* The last 9 decimal digits of n < 10^9, zero-padded.
Digits9(n) ==
  [i \in 1..9 |-> 48 + ((n \div (10^(9 - i))) % 10)]

\* The integer v written as a decimal string.
ToDecimalString(v) ==
  IF v.hi > 0 THEN DigitsOf(v.hi) \o Digits9(v.lo)
  ELSE IF v.lo = 0 THEN <<48>>
  ELSE DigitsOf(v.lo)

\* ------------------------------------------------------------------- JSON

\* A property value of DeSoBodySchema: a string, a list of strings, or
\* undefined (the property is absent).
StrValue(s) == [kind |-> "string", str |-> s, list |-> <<>>]
ListValue(l) == [kind |-> "list", str |-> <<>>, list |-> l]
NoValue == [kind |-> "undefined", str |-> <<>>, list |-> <<>>]

\* A property of an object: key and value.
Prop(key, value) == [key |-> key, value |-> value]

\* JavaScript truthiness of a property value: undefined and "" are falsy;
\* every array, the empty one included, is truthy.
TruthyValue(value) ==
  \/ value.kind = "list"
  \/ value.kind = "string" /\ value.str # <<>>

\* JSON.stringify of a string: quoted, with quote and backslash escaped.
JSONString(s) ==
  <<34>>
  \o Concat([i \in 1..Len(s) |->
               IF s[i] \in {34, 92} THEN <<92, s[i]>> ELSE <<s[i]>>])
  \o <<34>>

\* JSON.stringify of a property value.
JSONValue(value) ==
  IF value.kind = "list"
    THEN <<91>>
         \o Join([i \in 1..Len(value.list) |-> JSONString(value.list[i])], <<44>>)
         \o <<93>>
  ELSE JSONString(value.str)

\* JSON.stringify of an object given as its properties in key order;
\* properties whose value is undefined are left out.
JSONStringify(obj) ==
  LET defined == SelectSeq(obj, LAMBDA p : p.value.kind # "undefined")
  IN  <<123>>
      \o Join([i \in 1..Len(defined) |->
                 JSONString(defined[i].key) \o <<58>> \o JSONValue(defined[i].value)],
              <<44>>)
      \o <<125>>

\* ------------------------------------------------------------ input domains

\* Key strings of the participants (base58-check public keys).
PublicKeys == {"BC1YLalice", "BC1YLbob"}
\* Public keys of access groups.
GroupKeys == {"BC1YLgroupA", "BC1YLgroupB"}

\* bs58PublicKeyToCompressedBytes(key): the compressed point of a key, a
\* different byte string for each key.
bs58PublicKeyToCompressedBytes(key) ==
  CASE key = "BC1YLalice" -> <<2, 161>>
    [] key = "BC1YLbob" -> <<3, 178>>
    [] key = "BC1YLgroupA" -> <<2, 10>>
    [] key = "BC1YLgroupB" -> <<3, 11>>

\* Hex strings callers pass: "ab12" (well formed) and "abc" (odd length,
\* which hexToBytes rejects).
HexAb12 == <<97, 98, 49, 50>>
HexAbc == <<97, 98, 99>>

\* The TransactionFees lists callers pass (their AmountNanos), or undefined.
FeeLists == {Undefined} \cup {Some(l) : l \in SeqsUpTo({1, 5}, MaxFees)}

\* options.checkPermissions and options.sendMessageUnencrypted as passed.
TriState == {"undefined", "true", "false"}

\* Message texts: "a" (1 UTF-8 byte), e-acute (2 bytes), the euro sign (3).
Messages == SeqsUpTo({97, 233, 8364}, MaxMsgLen)

\* Values of a string property of the post body: absent, "", "hi".
BodyStrings == {NoValue, StrValue(<<>>), StrValue(<<104, 105>>)}
\* Values of a list property of the post body: absent, [], ["u"].
BodyLists == {NoValue, ListValue(<<>>), ListValue(<< <<117>> >>)}

KeyBody == <<66, 111, 100, 121>>
KeyImageURLs == <<73, 109, 97, 103, 101, 85, 82, 76, 115>>
KeyVideoURLs == <<86, 105, 100, 101, 111, 85, 82, 76, 115>>

\* The post bodies callers pass (DeSoBodySchema objects, keys in this order).
BodyObjs ==
  { << Prop(KeyBody, b), Prop(KeyImageURLs, i), Prop(KeyVideoURLs, v) >> :
      b \in BodyStrings, i \in BodyLists, v \in BodyLists }

\* Decimal digits as a string.
Digits(ds) == [i \in 1..Len(ds) |-> 48 + ds[i]]

\* TimestampNanosString values callers pass: nanosecond timestamps around
\* 1.7 * 10^18 (where doubles are 256 apart), and small ones.
TimestampStrings ==
  { Digits(<<1,7,0,0,0,0,0,0,0,0,0,0,0,0,0,0,0,0,0>>),
    Digits(<<1,7,0,0,0,0,0,0,0,0,0,0,0,0,0,0,0,0,1>>),
    Digits(<<1,7,0,0,0,0,0,0,0,0,0,0,0,0,0,0,1,2,8>>),
    Digits(<<1,7,0,0,0,0,0,0,0,0,0,0,0,0,0,0,2,5,6>>),
    Digits(<<1,7,0,0,0,0,0,0,0,0,1,2,3,4,5,6,7,8,9>>),
    Digits(<<1,6,9,9,9,9,9,9,9,9,9,9,9,9,9,9,9,9,9>>),
    Digits(<<9,0,0,7,1,9,9,2,5,4,7,4,0,9,9,3>>),
    Digits(<<4,2>>) }

\* Readings of Math.ceil(1e6 * (performance.timeOrigin + performance.now())):
\* a Number, hence a multiple of 256 at this magnitude.
ClockReadings == {Big(1700000000, 512), Big(1700000001, 999999744)}

\* Ciphertexts identity.encryptMessage returns: "" (failure) or a hex string.
Ciphertexts == {<<>>, <<99, 48, 102, 101>>}

\* ------------------------------------------------------------------- state

VARIABLES
  op,       \* the operation in flight; "none" when no call is in flight
  pc,       \* where the call stands: "idle", an await point, or "done"
  params,   \* the request the caller passed
  options,  \* the options the caller passed
  locals,   \* the values the call has computed so far
  calls,    \* the collaborator calls of this call and their answers, in order
  result    \* how the call ended

vars == <<op, pc, params, options, locals, calls, result>>

\* An optional number.
Num(n) == [present |-> TRUE, n |-> n]
NoNum == [present |-> FALSE, n |-> 0]

\* The request fields the operations read; an operation leaves the fields
\* of other operations at these values.
NoParams ==
  [ UpdaterPublicKeyBase58Check |-> "",
    ProfilePublicKeyBase58Check |-> "",
    NewUsername |-> <<>>,
    NewDescription |-> <<>>,
    NewProfilePic |-> <<>>,
    NewCreatorBasisPoints |-> 0,
    NewStakeMultipleBasisPoints |-> 0,
    IsHidden |-> FALSE,
    BodyObj |-> <<>>,
    RepostedPostHashHex |-> Undefined,
    ParentStakeID |-> Undefined,
    PostHashHexToModify |-> Undefined,
    TransactionFees |-> Undefined,
    DiamondLevel |-> 0,
    DiamondPostHashHex |-> <<>>,
    TimestampNanosString |-> <<>>,
    EncryptedMessageText |-> <<>>,
    SenderAccessGroupOwnerPublicKeyBase58Check |-> "",
    SenderAccessGroupPublicKeyBase58Check |-> "",
    SenderAccessGroupKeyName |-> "",
    RecipientAccessGroupOwnerPublicKeyBase58Check |-> "",
    RecipientAccessGroupPublicKeyBase58Check |-> "",
    RecipientAccessGroupKeyName |-> "",
    SenderPublicKeyBase58Check |-> "",
    RecipientPublicKeyBase58Check |-> "",
    Message |-> <<>>,
    AccessGroup |-> [present |-> FALSE, name |-> ""] ]

NoOptions == [checkPermissions |-> "undefined", sendMessageUnencrypted |-> "undefined"]

\* A transaction metadata record; a builder sets the fields of its kind.
NoMetadata ==
  [ kind |-> "none",
    profilePublicKey |-> <<>>,
    newUsername |-> <<>>,
    newDescription |-> <<>>,
    newProfilePic |-> <<>>,
    newCreatorBasisPoints |-> 0,
    newStakeMultipleBasisPoints |-> 0,
    isHidden |-> FALSE,
    body |-> <<>>,
    creatorBasisPoints |-> 0,
    stakeMultipleBasisPoints |-> 0,
    parentStakeId |-> <<>>,
    postHashToModify |-> <<>>,
    encryptedText |-> <<>>,
    recipientAccessGroupKeyname |-> "",
    recipientAccessGroupOwnerPublicKey |-> <<>>,
    recipientAccessGroupPublicKey |-> <<>>,
    senderAccessGroupKeyName |-> "",
    senderAccessGroupOwnerPublicKey |-> <<>>,
    senderAccessGroupPublicKey |-> <<>>,
    newMessageOperation |-> 0,
    newMessageType |-> 0,
    timestampNanos |-> Big(0, 0) ]

\* The locals of a call before it has computed anything.
NoLocals ==
  [ metadata |-> NoMetadata,
    extraDataKVs |-> <<>>,
    txWithFee |-> NoNum,
    AccessGroup |-> "",
    SenderAccessGroupKeyName |-> "",
    RecipientAccessGroupKeyName |-> "",
    RecipientAccessGroupPublicKeyBase58Check |-> "",
    EncryptedMessageText |-> <<>> ]

\* A call still running, fulfilled, rejected (its promise), or thrown
\* (synchronously, before any promise was returned).
Pending == [status |-> "pending", error |-> ""]
Fulfilled == [status |-> "fulfilled", error |-> ""]
Rejected(error) == [status |-> "rejected", error |-> error]
Thrown(error) == [status |-> "thrown", error |-> error]

\* One entry of calls: ev is "call", "return" or "throw"; fn the function;
\* tag its string argument (transaction type, endpoint, or the recipient's
\* group name or group key); sender the sender group name asked of the
\* directory; amount a number (the spend amount given to the guard, the fee
\* getTxnWithFee returns); text a text argument (plaintext, payload).
Event(ev, fn, tag, sender, amount, text) ==
  [ev |-> ev, fn |-> fn, tag |-> tag, sender |-> sender, amount |-> amount,
   text |-> text]

Call(fn, tag, amount, text) == Event("call", fn, tag, "", amount, text)
Returned(fn) == Event("return", fn, "", "", NoNum, <<>>)
Threw(fn) == Event("throw", fn, "", "", NoNum, <<>>)

Init ==
  /\ op = "none"
  /\ pc = "idle"
  /\ params = NoParams
  /\ options = NoOptions
  /\ locals = NoLocals
  /\ calls = <<>>
  /\ result = Pending

\* ---------------------------------------------------------------- builders

\* sumTransactionFees(fees): the sum of the AmountNanos of the additional
\* fees; 0 when the list is undefined.
RECURSIVE SumSeq(_)
SumSeq(l) == IF l = <<>> THEN 0 ELSE Head(l) + SumSeq(Tail(l))

sumTransactionFees(fees) == IF fees.present THEN SumSeq(fees.v) ELSE 0

\* `s || ''` for an optional string.
OrEmpty(s) == IF Truthy(s) THEN s.v ELSE <<>>

\* A variant that encodes the profile owner's key on a self-update too.
buildUpdateProfileMetadataWithKey(p) ==
  [NoMetadata EXCEPT
     !.kind = "UpdateProfile",
     !.profilePublicKey =
        bs58PublicKeyToCompressedBytes(p.ProfilePublicKeyBase58Check),
     !.newUsername = encodeUTF8ToBytes(p.NewUsername),
     !.newDescription = encodeUTF8ToBytes(p.NewDescription),
     !.newProfilePic = encodeUTF8ToBytes(p.NewProfilePic),
     !.newCreatorBasisPoints = p.NewCreatorBasisPoints,
     !.newStakeMultipleBasisPoints = p.NewStakeMultipleBasisPoints,
     !.isHidden = p.IsHidden]

\* buildUpdateProfileMetadata (social.ts 49-67).
buildUpdateProfileMetadata(p) ==
  [NoMetadata EXCEPT
     !.kind = "UpdateProfile",
     !.profilePublicKey =
        IF p.UpdaterPublicKeyBase58Check # p.ProfilePublicKeyBase58Check
          THEN bs58PublicKeyToCompressedBytes(p.ProfilePublicKeyBase58Check)
          ELSE <<>>,
     !.newUsername = encodeUTF8ToBytes(p.NewUsername),
     !.newDescription = encodeUTF8ToBytes(p.NewDescription),
     !.newProfilePic = encodeUTF8ToBytes(p.NewProfilePic),
     !.newCreatorBasisPoints = p.NewCreatorBasisPoints,
     !.newStakeMultipleBasisPoints = p.NewStakeMultipleBasisPoints,
     !.isHidden = p.IsHidden]

\* Does the loop of buildSubmitPostMetadata copy a property with this value
\* into BodyObjCopy (social.ts 125-134)?  A falsy value returns early; the
\* two branches of the array test both copy.
CopiesProperty(value) ==
  IF ~TruthyValue(value) THEN FALSE
  ELSE IF value.kind = "list" /\ Len(value.list) > 0 THEN TRUE
  ELSE TRUE

\* BodyObjCopy as buildSubmitPostMetadata fills it (social.ts 124-134).
BodyObjCopy(BodyObj) == SelectSeq(BodyObj, LAMBDA pr : CopiesProperty(pr.value))

\* Does buildSubmitPostMetadata throw (hexToBytes on a malformed string)?
SubmitPostMetadataThrows(p) ==
  \/ ~HexWellFormed(OrEmpty(p.ParentStakeID))
  \/ ~HexWellFormed(OrEmpty(p.PostHashHexToModify))

\* buildSubmitPostMetadata (social.ts 122-146), when it does not throw;
\* now is the clock reading.
buildSubmitPostMetadata(p, now) ==
  [NoMetadata EXCEPT
     !.kind = "SubmitPost",
     !.body = encodeUTF8ToBytes(JSONStringify(BodyObjCopy(p.BodyObj))),
     !.creatorBasisPoints = 1000,
     !.stakeMultipleBasisPoints = 12500,
     !.timestampNanos = now,
     !.parentStakeId = hexToBytes(OrEmpty(p.ParentStakeID)),
     !.postHashToModify = hexToBytes(OrEmpty(p.PostHashHexToModify))]

\* A TransactionExtraDataKV.
TransactionExtraDataKV(key, value) == [key |-> key, value |-> value]

\* "RecloutedPostHash", "IsQuotedReclout", "DiamondLevel", "DiamondPostHash".
StrRecloutedPostHash ==
  <<82, 101, 99, 108, 111, 117, 116, 101, 100, 80, 111, 115, 116, 72, 97, 115, 104>>
StrIsQuotedReclout ==
  <<73, 115, 81, 117, 111, 116, 101, 100, 82, 101, 99, 108, 111, 117, 116>>
StrDiamondLevel ==
  <<68, 105, 97, 109, 111, 110, 100, 76, 101, 118, 101, 108>>
StrDiamondPostHash ==
  <<68, 105, 97, 109, 111, 110, 100, 80, 111, 115, 116, 72, 97, 115, 104>>

\* The body text of a post, or the list of a list property, falsy when absent.
BodyText(BodyObj) == BodyObj[1].value.str
ImageURLs(BodyObj) == BodyObj[2].value.list
VideoURLs(BodyObj) == BodyObj[3].value.list

\* A variant that forgets the video URLs.
IsQuotedRecloutIgnoringVideos(BodyObj) ==
  IF BodyText(BodyObj) = <<>> /\ Len(ImageURLs(BodyObj)) = 0 THEN 0 ELSE 1

\* The byte of the IsQuotedReclout entry (social.ts 161-167):
\* !Body && !ImageURLs?.length && !VideoURLs?.length ? 0 : 1.
IsQuotedRecloutByte(BodyObj) ==
  IF /\ BodyText(BodyObj) = <<>>
     /\ Len(ImageURLs(BodyObj)) = 0
     /\ Len(VideoURLs(BodyObj)) = 0
  THEN 0 ELSE 1

\* Does buildSubmitPostConsensusKVs throw (hexToBytes on a malformed hash)?
SubmitPostConsensusKVsThrows(p) ==
  Truthy(p.RepostedPostHashHex) /\ ~HexWellFormed(p.RepostedPostHashHex.v)

\* buildSubmitPostConsensusKVs (social.ts 148-173), when it does not throw.
buildSubmitPostConsensusKVs(p) ==
  IF Truthy(p.RepostedPostHashHex)
  THEN << TransactionExtraDataKV(encodeUTF8ToBytes(StrRecloutedPostHash),
                                 hexToBytes(p.RepostedPostHashHex.v)),
          TransactionExtraDataKV(encodeUTF8ToBytes(StrIsQuotedReclout),
                                 <<IsQuotedRecloutByte(p.BodyObj)>>) >>
  ELSE <<>>

\* The metadata of the four message transactions (social.ts 371-395,
\* 427-449, 481-505, 606-628): operation 0 = new, 1 = update; type 0 =
\* direct, 1 = group; timestampNanos is the clock reading or the parsed
\* TimestampNanosString.
MessageMetadata(p, operation, type, timestampNanos) ==
  [NoMetadata EXCEPT
     !.kind = "NewMessage",
     !.encryptedText = encodeUTF8ToBytes(p.EncryptedMessageText),
     !.newMessageOperation = operation,
     !.newMessageType = type,
     !.recipientAccessGroupKeyname = p.RecipientAccessGroupKeyName,
     !.recipientAccessGroupOwnerPublicKey =
        bs58PublicKeyToCompressedBytes(p.RecipientAccessGroupOwnerPublicKeyBase58Check),
     !.recipientAccessGroupPublicKey =
        bs58PublicKeyToCompressedBytes(p.RecipientAccessGroupPublicKeyBase58Check),
     !.senderAccessGroupKeyName = p.SenderAccessGroupKeyName,
     !.senderAccessGroupOwnerPublicKey =
        bs58PublicKeyToCompressedBytes(p.SenderAccessGroupOwnerPublicKeyBase58Check),
     !.senderAccessGroupPublicKey =
        bs58PublicKeyToCompressedBytes(p.SenderAccessGroupPublicKeyBase58Check),
     !.timestampNanos = timestampNanos]

\* The metadata timestamp of an update (social.ts 449, 628).
UpdateTimestampNanos(p) == parseInt(p.TimestampNanosString)

\* ------------------------------------------------------------- requests

\* Usernames callers pass: none, "a", and e with an acute accent.
Usernames == {<<>>, <<97>>, <<233>>}

UpdateProfileRequests ==
  { [NoParams EXCEPT !.UpdaterPublicKeyBase58Check = u,
                     !.ProfilePublicKeyBase58Check = o,
                     !.NewUsername = n,
                     !.NewDescription = <<104, 105>>,
                     !.NewCreatorBasisPoints = 1000,
                     !.NewStakeMultipleBasisPoints = 12500,
                     !.IsHidden = h,
                     !.TransactionFees = f] :
      u \in PublicKeys, o \in PublicKeys, n \in Usernames, h \in BOOLEAN,
      f \in FeeLists }

SubmitPostRequests ==
  { [NoParams EXCEPT !.UpdaterPublicKeyBase58Check = "BC1YLalice",
                     !.BodyObj = b,
                     !.RepostedPostHashHex = r,
                     !.ParentStakeID = ps,
                     !.PostHashHexToModify = pm,
                     !.TransactionFees = f] :
      b \in BodyObjs,
      r \in {Undefined, Some(<<>>), Some(HexAb12), Some(HexAbc)},
      ps \in {Undefined, Some(HexAb12)},
      pm \in {Undefined, Some(HexAbc)},
      f \in FeeLists }

\* Requests of updateFollowingStatus, sendDiamonds and updateLikeStatus, of
\* which these operations read nothing themselves.
PlainRequests == { [NoParams EXCEPT !.TransactionFees = f] : f \in FeeLists }

SendDiamondsRequests ==
  { [NoParams EXCEPT !.DiamondLevel = l, !.DiamondPostHashHex = h] :
      l \in (0..MaxDiamondLevel) \cup {300}, h \in {HexAb12, HexAbc, <<>>} }

\* Requests of the four message operations.
MessageRequests ==
  { [NoParams EXCEPT !.EncryptedMessageText = t,
                     !.TimestampNanosString = ts,
                     !.SenderAccessGroupOwnerPublicKeyBase58Check = "BC1YLalice",
                     !.SenderAccessGroupPublicKeyBase58Check = "BC1YLgroupA",
                     !.SenderAccessGroupKeyName = "default-key",
                     !.RecipientAccessGroupOwnerPublicKeyBase58Check = "BC1YLbob",
                     !.RecipientAccessGroupPublicKeyBase58Check = "BC1YLgroupB",
                     !.RecipientAccessGroupKeyName = g] :
      t \in {<<>>, <<99, 48, 102, 101>>},
      ts \in TimestampStrings,
      g \in {"default-key", "book-club"} }

\* SendNewMessageParams omits TimestampNanosString.
NewMessageRequests ==
  { [r EXCEPT !.TimestampNanosString = <<>>] : r \in MessageRequests }

\* The AccessGroup a caller of sendMessage passes: absent, "", the default
\* group's name, another group's name.
AccessGroups ==
  { [present |-> FALSE, name |-> ""], [present |-> TRUE, name |-> ""],
    [present |-> TRUE, name |-> "default-key"],
    [present |-> TRUE, name |-> "book-club"] }

SendMessageRequests ==
  { [NoParams EXCEPT !.SenderPublicKeyBase58Check = "BC1YLalice",
                     !.RecipientPublicKeyBase58Check = "BC1YLbob",
                     !.Message = m,
                     !.AccessGroup = g] :
      m \in Messages, g \in AccessGroups }

\* TxRequestOptions / RequestOptions as callers pass them.
TxOptions ==
  { [NoOptions EXCEPT !.checkPermissions = c] : c \in TriState }
SendMessageOptions ==
  { [NoOptions EXCEPT !.checkPermissions = c, !.sendMessageUnencrypted = u] :
      c \in {"undefined", "false"}, u \in TriState }

\* What getTxnWithFee answers: a fee, or nothing when it throws.
FeeAnswers == {NoNum} \cup {Num(n) : n \in 0..MaxFeeNanos}

\* ------------------------------------------------- the guarded operations

\* A variant that guards only on an explicit true: `if (options?.checkPermissions)`.
ChecksPermissionsWhenTrue(o) == o.checkPermissions = "true"

\* options?.checkPermissions !== false (social.ts 111, 224, 252, 290).
ChecksPermissions(o) == o.checkPermissions # "false"

\* The endpoint each operation hands to handleSignAndSubmit.
Endpoint(operation) ==
  CASE operation = "updateProfile" -> "api/v0/update-profile"
    [] operation = "submitPost" -> "api/v0/submit-post"
    [] operation = "updateFollowingStatus" -> "api/v0/create-follow-txn-stateless"
    [] operation = "sendDiamonds" -> "api/v0/send-diamonds"
    [] operation = "updateLikeStatus" -> "api/v0/create-like-stateless"
    [] operation = "sendDMMessage" -> "api/v0/send-dm-message"
    [] operation = "updateDMMessage" -> "api/v0/update-dm-message"
    [] operation = "sendGroupChatMessage" -> "api/v0/send-group-chat-message"
    [] operation = "updateGroupChatMessage" -> "api/v0/update-group-chat-message"

\* The transaction type each guarded operation names to the guard.
GuardKind(operation) ==
  CASE operation = "updateProfile" -> "UpdateProfile"
    [] operation = "submitPost" -> "SubmitPost"
    [] operation = "updateFollowingStatus" -> "Follow"
    [] operation = "sendDiamonds" -> "BasicTransfer"

\* txAmountDESONanos as each guarded operation passes it to the guard:
\* updateProfile and submitPost pass the fee plus the additional fees
\* (social.ts 114-115, 227-228); updateFollowingStatus and sendDiamonds pass
\* none (social.ts 253-255, 291-293).
GuardAmount(operation, p, txWithFee) ==
  IF operation \in {"updateProfile", "submitPost"}
  THEN Num(txWithFee.n + sumTransactionFees(p.TransactionFees))
  ELSE NoNum

\* The call of handleSignAndSubmit an operation makes; payload is the
\* EncryptedMessageText of the request, for the message operations.
SignAndSubmitCall(operation, payload) ==
  Call("handleSignAndSubmit", Endpoint(operation), NoNum, payload)

\* The tail of a guarded operation, after the events pre: the guard call and
\* the suspension on it, or straight to handleSignAndSubmit.
GuardThenSubmit(operation, p, o, txWithFee, pre) ==
  IF ChecksPermissions(o)
  THEN /\ calls' = pre \o << Call("guardTxPermission", GuardKind(operation),
                                  GuardAmount(operation, p, txWithFee), <<>>) >>
       /\ pc' = "awaitGuard"
  ELSE /\ calls' = pre \o << SignAndSubmitCall(operation, <<>>) >>
       /\ pc' = "awaitSubmit"

\* The answer of getTxnWithFee as an event.
FeeEvent(fee) ==
  IF fee.present THEN Event("return", "getTxnWithFee", "", "", fee, <<>>)
  ELSE Threw("getTxnWithFee")

\* A variant that catches the error of getTxnWithFee and goes on.
FeeFailureIgnored(fee) == FALSE

\* Does the answer of getTxnWithFee end the operation?  The operations call
\* it outside any try/catch (social.ts 109, 222), so its error is theirs.
FeeComputationFails(fee) == ~fee.present

\* updateProfile (social.ts 86-120).
UpdateProfile ==
  /\ pc = "idle"
  /\ \E p \in UpdateProfileRequests, o \in TxOptions, fee \in FeeAnswers :
       /\ op' = "updateProfile"
       /\ params' = p
       /\ options' = o
       /\ locals' = [NoLocals EXCEPT !.metadata = buildUpdateProfileMetadata(p),
                                     !.txWithFee = fee]
       /\ IF FeeComputationFails(fee)
          THEN /\ calls' = <<FeeEvent(fee)>>
               /\ pc' = "done"
               /\ result' = Rejected("FeeComputationFailure")
          ELSE /\ GuardThenSubmit("updateProfile", p, o, fee, <<FeeEvent(fee)>>)
               /\ result' = Pending

\* submitPost (social.ts 199-236).
SubmitPost ==
  /\ pc = "idle"
  /\ \E p \in SubmitPostRequests, o \in TxOptions, fee \in FeeAnswers,
        now \in ClockReadings :
       /\ op' = "submitPost"
       /\ params' = p
       /\ options' = o
       /\ IF SubmitPostMetadataThrows(p) \/ SubmitPostConsensusKVsThrows(p)
          THEN /\ locals' = NoLocals
               /\ calls' = <<>>
               /\ pc' = "done"
               /\ result' = Rejected("hex string is invalid")
          ELSE /\ locals' = [NoLocals EXCEPT
                               !.metadata = buildSubmitPostMetadata(p, now),
                               !.extraDataKVs = buildSubmitPostConsensusKVs(p),
                               !.txWithFee = fee]
               /\ IF FeeComputationFails(fee)
                  THEN /\ calls' = <<FeeEvent(fee)>>
                       /\ pc' = "done"
                       /\ result' = Rejected("FeeComputationFailure")
                  ELSE /\ GuardThenSubmit("submitPost", p, o, fee, <<FeeEvent(fee)>>)
                       /\ result' = Pending

\* updateFollowingStatus (social.ts 248-262).
UpdateFollowingStatus ==
  /\ pc = "idle"
  /\ \E p \in PlainRequests, o \in TxOptions :
       /\ op' = "updateFollowingStatus"
       /\ params' = p
       /\ options' = o
       /\ locals' = NoLocals
       /\ GuardThenSubmit("updateFollowingStatus", p, o, NoNum, <<>>)
       /\ result' = Pending

\* sendDiamonds (social.ts 286-297).
SendDiamonds ==
  /\ pc = "idle"
  /\ \E p \in PlainRequests, o \in TxOptions :
       /\ op' = "sendDiamonds"
       /\ params' = p
       /\ options' = o
       /\ locals' = NoLocals
       /\ GuardThenSubmit("sendDiamonds", p, o, NoNum, <<>>)
       /\ result' = Pending

\* The guard's answer as an event: it throws on denial.
GuardEvent(answer) ==
  IF answer = "denied" THEN Threw("guardTxPermission")
  ELSE Returned("guardTxPermission")

\* A variant that catches the guard's error and goes on.
GuardNeverBlocks(answer) == FALSE

\* Does the guard's answer end the operation?  The operations await the
\* guard outside any try/catch, so its error is theirs.
GuardBlocks(answer) == answer = "denied"

\* The guard answers: the operation resumes after its await (social.ts
\* 112-119, 225-235, 253-261, 291-296).
GuardReturns ==
  /\ pc = "awaitGuard"
  /\ \E answer \in {"allowed", "denied"} :
       IF GuardBlocks(answer)
       THEN /\ calls' = Append(calls, GuardEvent(answer))
            /\ pc' = "done"
            /\ result' = Rejected("PermissionDenied")
       ELSE /\ calls' = calls \o << GuardEvent(answer), SignAndSubmitCall(op, <<>>) >>
            /\ pc' = "awaitSubmit"
            /\ result' = Pending
  /\ UNCHANGED <<op, params, options, locals>>

\* ------------------------------------------- the operations with no guard

\* updateLikeStatus (social.ts 324-332).
UpdateLikeStatus ==
  /\ pc = "idle"
  /\ \E p \in PlainRequests, o \in TxOptions :
       /\ op' = "updateLikeStatus"
       /\ params' = p
       /\ options' = o
       /\ locals' = NoLocals
       /\ calls' = << SignAndSubmitCall("updateLikeStatus", <<>>) >>
       /\ pc' = "awaitSubmit"
       /\ result' = Pending

\* The body shared by sendDMMessage, updateDMMessage, sendGroupChatMessage
\* and updateGroupChatMessage: hand the request to handleSignAndSubmit.
MessageOperation(operation, requests) ==
  /\ pc = "idle"
  /\ \E p \in requests, o \in TxOptions :
       /\ op' = operation
       /\ params' = p
       /\ options' = o
       /\ locals' = NoLocals
       /\ calls' = << SignAndSubmitCall(operation, p.EncryptedMessageText) >>
       /\ pc' = "awaitSubmit"
       /\ result' = Pending

\* sendDMMessage (social.ts 354-366).
SendDMMessage == MessageOperation("sendDMMessage", NewMessageRequests)

\* updateDMMessage (social.ts 410-422).
UpdateDMMessage == MessageOperation("updateDMMessage", MessageRequests)

\* sendGroupChatMessage (social.ts 464-476).
SendGroupChatMessage == MessageOperation("sendGroupChatMessage", NewMessageRequests)

\* updateGroupChatMessage (social.ts 589-601).
UpdateGroupChatMessage == MessageOperation("updateGroupChatMessage", MessageRequests)

\* handleSignAndSubmit settles; the operation returned its promise, so the
\* call ends as it does.
SubmitReturns ==
  /\ pc = "awaitSubmit"
  /\ \E answer \in {"submitted", "failed"} :
       IF answer = "submitted"
       THEN /\ calls' = Append(calls, Returned("handleSignAndSubmit"))
            /\ result' = Fulfilled
       ELSE /\ calls' = Append(calls, Threw("handleSignAndSubmit"))
            /\ result' = Rejected("SubmissionFailure")
  /\ pc' = "done"
  /\ UNCHANGED <<op, params, options, locals>>

\* ----------------------------------------------------------- sendMessage

\* A variant that defaults only an absent AccessGroup, not an empty one.
DefaultedWhenAbsent(g) == IF ~g.present THEN "default-key" ELSE g.name

\* params.AccessGroup after social.ts 536-538: "default-key" when the
\* caller's value is falsy (absent or "").
DefaultedAccessGroup(g) ==
  IF ~g.present \/ g.name = "" THEN "default-key" ELSE g.name

\* The request sendMessage gives checkPartyAccessGroups (social.ts 545-550):
\* the sender's group asked for is always "default-key", the recipient's is
\* params.AccessGroup.
PartyAccessGroupsCall(AccessGroup) ==
  Event("call", "checkPartyAccessGroups", AccessGroup, "default-key", NoNum, <<>>)

\* sendMessage up to its first await (social.ts 532-550).
SendMessage ==
  /\ pc = "idle"
  /\ \E p \in SendMessageRequests, o \in SendMessageOptions :
       /\ op' = "sendMessage"
       /\ params' = p
       /\ options' = o
       /\ locals' = [NoLocals EXCEPT !.AccessGroup = DefaultedAccessGroup(p.AccessGroup)]
       /\ calls' = << PartyAccessGroupsCall(DefaultedAccessGroup(p.AccessGroup)) >>
       /\ pc' = "awaitLookup"
       /\ result' = Pending

\* What checkPartyAccessGroups answers for a recipient group name asked: the
\* key names are empty when the party has no such group.
PartyAccessGroupsAnswers(asked) ==
  [ threw : {FALSE},
    SenderAccessGroupKeyName : {"", "default-key"},
    RecipientAccessGroupKeyName : {"", asked},
    RecipientAccessGroupPublicKeyBase58Check : {"", "BC1YLgroupB"} ]
  \cup
  { [ threw |-> TRUE, SenderAccessGroupKeyName |-> "",
      RecipientAccessGroupKeyName |-> "",
      RecipientAccessGroupPublicKeyBase58Check |-> "" ] }

\* A variant without the check of the sender's group.
SenderNeverLacksGroup(SenderAccessGroupKeyName) == FALSE

\* !SenderAccessGroupKeyName (social.ts 552).
SenderLacksDefaultGroup(SenderAccessGroupKeyName) == SenderAccessGroupKeyName = ""

\* options?.sendMessageUnencrypted, as a condition (social.ts 556).
SendsUnencrypted(o) == o.sendMessageUnencrypted = "true"

\* The message path sendMessage takes (social.ts 581-583).
MessagePath(AccessGroup) ==
  IF AccessGroup = "default-key" THEN "sendDMMessage" ELSE "sendGroupChatMessage"

\* sendMessage from the payload on (social.ts 563-583), after the events
\* pre: it throws on an empty payload, else calls the message path, which
\* calls handleSignAndSubmit with its endpoint.
CheckAndDispatch(EncryptedMessageText, pre) ==
  IF EncryptedMessageText = <<>>
  THEN /\ calls' = pre
       /\ pc' = "done"
       /\ result' = Rejected("Failed to encrypt message")
  ELSE /\ calls' = pre \o
            << Call(MessagePath(locals.AccessGroup), locals'.RecipientAccessGroupKeyName,
                    NoNum, EncryptedMessageText),
               SignAndSubmitCall(MessagePath(locals.AccessGroup), EncryptedMessageText) >>
       /\ pc' = "awaitSubmit"
       /\ result' = Pending

\* checkPartyAccessGroups answers: sendMessage resumes (social.ts 552-561).
LookupReturns ==
  /\ pc = "awaitLookup"
  /\ \E a \in PartyAccessGroupsAnswers(locals.AccessGroup) :
       IF a.threw
       THEN /\ calls' = Append(calls, Threw("checkPartyAccessGroups"))
            /\ locals' = locals
            /\ pc' = "done"
            /\ result' = Rejected("LookupFailure")
       ELSE
         /\ IF SenderLacksDefaultGroup(a.SenderAccessGroupKeyName)
            THEN /\ locals' = [locals EXCEPT
                    !.SenderAccessGroupKeyName = a.SenderAccessGroupKeyName,
                    !.RecipientAccessGroupKeyName = a.RecipientAccessGroupKeyName,
                    !.RecipientAccessGroupPublicKeyBase58Check =
                       a.RecipientAccessGroupPublicKeyBase58Check]
                 /\ calls' = Append(calls, Returned("checkPartyAccessGroups"))
                 /\ pc' = "done"
                 /\ result' = Rejected("Sender does not have default messaging group")
            ELSE IF SendsUnencrypted(options)
            THEN /\ locals' = [locals EXCEPT
                    !.SenderAccessGroupKeyName = a.SenderAccessGroupKeyName,
                    !.RecipientAccessGroupKeyName = a.RecipientAccessGroupKeyName,
                    !.RecipientAccessGroupPublicKeyBase58Check =
                       a.RecipientAccessGroupPublicKeyBase58Check,
                    !.EncryptedMessageText = hexEncodePlainText(params.Message)]
                 /\ CheckAndDispatch(hexEncodePlainText(params.Message),
                                     Append(calls, Returned("checkPartyAccessGroups")))
            ELSE /\ locals' = [locals EXCEPT
                    !.SenderAccessGroupKeyName = a.SenderAccessGroupKeyName,
                    !.RecipientAccessGroupKeyName = a.RecipientAccessGroupKeyName,
                    !.RecipientAccessGroupPublicKeyBase58Check =
                       a.RecipientAccessGroupPublicKeyBase58Check]
                 /\ calls' = calls \o
                      << Returned("checkPartyAccessGroups"),
                         Call("identity.encryptMessage",
                              a.RecipientAccessGroupPublicKeyBase58Check, NoNum,
                              params.Message) >>
                 /\ pc' = "awaitEncrypt"
                 /\ result' = Pending
  /\ UNCHANGED <<op, params, options>>

\* identity.encryptMessage answers: sendMessage resumes (social.ts 558-583).
EncryptReturns ==
  /\ pc = "awaitEncrypt"
  /\ \/ /\ calls' = Append(calls, Threw("identity.encryptMessage"))
        /\ locals' = locals
        /\ pc' = "done"
        /\ result' = Rejected("EncryptionError")
     \/ \E c \in Ciphertexts :
          /\ locals' = [locals EXCEPT !.EncryptedMessageText = c]
          /\ CheckAndDispatch(c, Append(calls,
                 Event("return", "identity.encryptMessage", "", "", NoNum, c)))
  /\ UNCHANGED <<op, params, options>>

\* ----------------------------------------------- local construction

\* The call of constructBalanceModelTx a construction function ends with:
\* the acting public key, and the metadata and extra data held in locals.
ConstructCall(publicKey) == Call("constructBalanceModelTx", publicKey, NoNum, <<>>)

\* constructSubmitPost (social.ts 175-188).  It is no async function: a
\* throwing builder throws out of it.
ConstructSubmitPost ==
  /\ pc = "idle"
  /\ \E p \in SubmitPostRequests, now \in ClockReadings :
       /\ op' = "constructSubmitPost"
       /\ params' = p
       /\ options' = NoOptions
       /\ IF SubmitPostMetadataThrows(p) \/ SubmitPostConsensusKVsThrows(p)
          THEN /\ locals' = NoLocals
               /\ calls' = <<>>
               /\ pc' = "done"
               /\ result' = Thrown("hex string is invalid")
          ELSE /\ locals' = [NoLocals EXCEPT
                               !.metadata = buildSubmitPostMetadata(p, now),
                               !.extraDataKVs = buildSubmitPostConsensusKVs(p)]
               /\ calls' = << ConstructCall(p.UpdaterPublicKeyBase58Check) >>
               /\ pc' = "awaitConstruct"
               /\ result' = Pending

\* constructUpdateProfileTransaction (social.ts 69-81).
ConstructUpdateProfileTransaction ==
  /\ pc = "idle"
  /\ \E p \in UpdateProfileRequests :
       /\ op' = "constructUpdateProfileTransaction"
       /\ params' = p
       /\ options' = NoOptions
       /\ locals' = [NoLocals EXCEPT !.metadata = buildUpdateProfileMetadata(p)]
       /\ calls' = << ConstructCall(p.UpdaterPublicKeyBase58Check) >>
       /\ pc' = "awaitConstruct"
       /\ result' = Pending

\* consensusExtraDataKVs as constructDiamondTransaction leaves it (social.ts
\* 303-310): the DiamondLevel entry is pushed, the DiamondPostHash entry is
\* built and never pushed.
DiamondConsensusKVs(p) ==
  << TransactionExtraDataKV(encodeUTF8ToBytes(StrDiamondLevel),
                            uvarint64ToBuf(p.DiamondLevel)) >>

\* The DiamondPostHash entry constructDiamondTransaction builds (social.ts
\* 308-310) and drops.
DiamondPostHashKV(p) ==
  TransactionExtraDataKV(encodeUTF8ToBytes(StrDiamondPostHash),
                         hexToBytes(p.DiamondPostHashHex))

\* How constructDiamondTransaction ends (social.ts 300-312): hexToBytes
\* throws on a malformed DiamondPostHashHex, before the return statement;
\* otherwise the function returns a promise rejected with its fixed message.
DiamondOutcome(p) ==
  IF ~HexWellFormed(p.DiamondPostHashHex)
  THEN Thrown("hex string is invalid")
  ELSE Rejected("Local construction for diamonds not supported yet.")

\* constructDiamondTransaction (social.ts 300-312).
ConstructDiamondTransaction ==
  /\ pc = "idle"
  /\ \E p \in SendDiamondsRequests :
       /\ op' = "constructDiamondTransaction"
       /\ params' = p
       /\ options' = NoOptions
       /\ locals' = [NoLocals EXCEPT !.extraDataKVs = DiamondConsensusKVs(p)]
       /\ calls' = <<>>
       /\ pc' = "done"
       /\ result' = DiamondOutcome(p)

\* The body shared by the four message construction functions: build the
\* metadata, hand it to constructBalanceModelTx.  Only a new message reads
\* the clock.
ConstructMessage(operation, requests, newMessageOperation, newMessageType) ==
  /\ pc = "idle"
  /\ \E p \in requests,
        now \in IF newMessageOperation = 1 THEN {Big(0, 0)} ELSE ClockReadings :
       /\ op' = operation
       /\ params' = p
       /\ options' = NoOptions
       /\ locals' = [NoLocals EXCEPT !.metadata =
            MessageMetadata(p, newMessageOperation, newMessageType,
                            IF newMessageOperation = 1
                              THEN UpdateTimestampNanos(p) ELSE now)]
       /\ calls' = << ConstructCall(p.SenderAccessGroupOwnerPublicKeyBase58Check) >>
       /\ pc' = "awaitConstruct"
       /\ result' = Pending

\* constructSendDMTransaction (social.ts 368-405).
ConstructSendDMTransaction ==
  ConstructMessage("constructSendDMTransaction", NewMessageRequests, 0, 0)

\* constructUpdateDMTransaction (social.ts 424-459).
ConstructUpdateDMTransaction ==
  ConstructMessage("constructUpdateDMTransaction", MessageRequests, 1, 0)

\* constructSendGroupChatMessageTransaction (social.ts 478-515).
ConstructSendGroupChatMessageTransaction ==
  ConstructMessage("constructSendGroupChatMessageTransaction", NewMessageRequests, 0, 1)

\* constructUpdateGroupChatMessageTransaction (social.ts 603-638).
ConstructUpdateGroupChatMessageTransaction ==
  ConstructMessage("constructUpdateGroupChatMessageTransaction", MessageRequests, 1, 1)

\* constructBalanceModelTx settles, and with it the construction function's
\* promise.
ConstructReturns ==
  /\ pc = "awaitConstruct"
  /\ \E answer \in {"constructed", "failed"} :
       IF answer = "constructed"
       THEN /\ calls' = Append(calls, Returned("constructBalanceModelTx"))
            /\ result' = Fulfilled
       ELSE /\ calls' = Append(calls, Threw("constructBalanceModelTx"))
            /\ result' = Rejected("ConstructionFailure")
  /\ pc' = "done"
  /\ UNCHANGED <<op, params, options, locals>>

\* The caller has the outcome; the next call starts afresh.
Return ==
  /\ pc = "done"
  /\ op' = "none"
  /\ pc' = "idle"
  /\ params' = NoParams
  /\ options' = NoOptions
  /\ locals' = NoLocals
  /\ calls' = <<>>
  /\ result' = Pending

Next ==
  \/ UpdateProfile
  \/ SubmitPost
  \/ UpdateFollowingStatus
  \/ SendDiamonds
  \/ GuardReturns
  \/ UpdateLikeStatus
  \/ SendDMMessage
  \/ UpdateDMMessage
  \/ SendGroupChatMessage
  \/ UpdateGroupChatMessage
  \/ SendMessage
  \/ LookupReturns
  \/ EncryptReturns
  \/ SubmitReturns
  \/ ConstructUpdateProfileTransaction
  \/ ConstructSubmitPost
  \/ ConstructDiamondTransaction
  \/ ConstructSendDMTransaction
  \/ ConstructUpdateDMTransaction
  \/ ConstructSendGroupChatMessageTransaction
  \/ ConstructUpdateGroupChatMessageTransaction
  \/ ConstructReturns
  \/ Return

Spec == Init /\ [][Next]_vars

\* -------------------------------------------------------------- properties

\* The positions in calls of the events ev of fn.
Events(ev, fn) == {i \in DOMAIN calls : calls[i].ev = ev /\ calls[i].fn = fn}

\* The operations that await the guard, and those that do not.
GuardedOperations ==
  {"updateProfile", "submitPost", "updateFollowingStatus", "sendDiamonds"}
UnguardedOperations ==
  {"updateLikeStatus", "sendDMMessage", "updateDMMessage", "sendGroupChatMessage",
   "updateGroupChatMessage"}

\* Every call of handleSignAndSubmit comes after a guard call that returned.
GuardCompletedBeforeSubmit ==
  \A i \in Events("call", "handleSignAndSubmit") :
    \E j \in Events("call", "guardTxPermission") :
      \E k \in Events("return", "guardTxPermission") : j < k /\ k < i

\* The call ended before the guard's turn: a builder or the fee computation
\* threw.
FailedBeforeGuard ==
  /\ result.status = "rejected"
  /\ result.error \in {"FeeComputationFailure", "hex string is invalid"}

\* C1 as stated: in each of the nine public operations called with
\* checkPermissions other than false, the guard has been invoked and has
\* completed before handleSignAndSubmit is invoked; with checkPermissions
\* false the guard is never invoked.
C1_GuardInEveryOperation ==
  op \in GuardedOperations \cup UnguardedOperations =>
    /\ options.checkPermissions # "false" => GuardCompletedBeforeSubmit
    /\ options.checkPermissions = "false" => Events("call", "guardTxPermission") = {}

\* C1 amended: in updateProfile, submitPost, updateFollowingStatus and
\* sendDiamonds called with checkPermissions other than false, the guard is
\* invoked unless a metadata builder or the fee computation threw first, and
\* it has completed before handleSignAndSubmit is invoked; with
\* checkPermissions false the guard is never invoked.  The other five
\* operations never invoke the guard, whatever the options.
C1_GuardInGuardedOperations ==
  /\ op \in GuardedOperations /\ options.checkPermissions # "false" =>
       /\ GuardCompletedBeforeSubmit
       /\ ~FailedBeforeGuard => Events("call", "guardTxPermission") # {}
  /\ op \in GuardedOperations /\ options.checkPermissions = "false" =>
       Events("call", "guardTxPermission") = {}
  /\ op \in UnguardedOperations => Events("call", "guardTxPermission") = {}

\* C1 witness: submitPost with checkPermissions unset has called
\* handleSignAndSubmit, after the guard returned.
C1_Witness ==
  /\ op = "submitPost"
  /\ options.checkPermissions = "undefined"
  /\ Events("return", "guardTxPermission") # {}
  /\ Events("call", "handleSignAndSubmit") # {}

\* C2: in an operation that invokes the guard, once the guard has failed the
\* operation has failed with the guard's error, the guard's failure is the
\* last thing that happened, and handleSignAndSubmit is not invoked.
C2_DenialAborts ==
  Events("throw", "guardTxPermission") # {} =>
    /\ op \in GuardedOperations
    /\ result = Rejected("PermissionDenied")
    /\ pc = "done"
    /\ calls[Len(calls)] = Threw("guardTxPermission")
    /\ Events("call", "handleSignAndSubmit") = {}

\* C2 witness: sendDiamonds ended by a denial.
C2_Witness ==
  /\ op = "sendDiamonds"
  /\ Events("throw", "guardTxPermission") # {}
  /\ result.status = "rejected"

\* C3 as stated: whenever one of the four guarded operations invokes the
\* guard, getTxnWithFee has returned a fee before, and the amount given to the
\* guard is that fee plus the sum of the request's TransactionFees.
C3_GuardAmountIsFeePlusFees ==
  \A i \in Events("call", "guardTxPermission") :
    /\ \E j \in Events("return", "getTxnWithFee") :
         /\ j < i
         /\ calls[j].amount = locals.txWithFee
    /\ calls[i].amount.present
    /\ calls[i].amount.n =
         locals.txWithFee.n + sumTransactionFees(params.TransactionFees)

\* ---- sendMessage

\* The message paths sendMessage has called.
PathCalls == Events("call", "sendDMMessage") \cup Events("call", "sendGroupChatMessage")

\* The endpoints handleSignAndSubmit has been called with.
SubmitEndpoints == {calls[i].tag : i \in Events("call", "handleSignAndSubmit")}

\* C4: sendMessage without an AccessGroup (absent or "") asks the directory
\* for the recipient's "default-key" group and, when it dispatches, calls
\* sendDMMessage and the endpoint api/v0/send-dm-message; with an AccessGroup
\* other than "default-key" it calls sendGroupChatMessage and the endpoint
\* api/v0/send-group-chat-message.  A dispatch calls exactly one path and
\* handleSignAndSubmit once, whatever the directory resolved.
C4_RoutingByAccessGroupName ==
  op = "sendMessage" =>
    LET g == params.AccessGroup
        absent == ~g.present \/ g.name = ""
        direct == absent \/ g.name = "default-key"
    IN  /\ absent => \A i \in Events("call", "checkPartyAccessGroups") :
                        calls[i].tag = "default-key"
        /\ Cardinality(PathCalls) <= 1
        /\ Cardinality(PathCalls) = Cardinality(Events("call", "handleSignAndSubmit"))
        /\ PathCalls # {} /\ direct =>
             /\ Events("call", "sendDMMessage") # {}
             /\ SubmitEndpoints = {"api/v0/send-dm-message"}
        /\ PathCalls # {} /\ ~direct =>
             /\ Events("call", "sendGroupChatMessage") # {}
             /\ SubmitEndpoints = {"api/v0/send-group-chat-message"}

\* C4 witness: sendMessage with an empty AccessGroup has taken the direct
\* path although the directory resolved no recipient group name.
C4_Witness ==
  /\ op = "sendMessage"
  /\ params.AccessGroup = [present |-> TRUE, name |-> ""]
  /\ locals.RecipientAccessGroupKeyName = ""
  /\ Events("call", "sendDMMessage") # {}

\* The directory has answered and the sender has a default group: sendMessage
\* has reached the payload.
ReachedPayload ==
  /\ op = "sendMessage"
  /\ Events("return", "checkPartyAccessGroups") # {}
  /\ locals.SenderAccessGroupKeyName # ""

\* The answers of the encryption primitive so far.
EncryptAnswers == {calls[i].text : i \in Events("return", "identity.encryptMessage")}

\* Is c a lower-case hex digit?
IsLowerHexDigit(c) == c \in 48..57 \/ c \in 97..102

\* C5: in sendMessage with sendMessageUnencrypted true the encryption
\* primitive is never called and the payload is the hex encoding of the UTF-8
\* bytes of the plaintext (it decodes to them); otherwise the primitive is
\* called, once, with the recipient's resolved group public key and the
\* plaintext, and once it has returned, no message path is dispatched and
\* nothing is submitted if and only if it returned an empty result, in which
\* case the operation has failed.
C5_EncryptionOrHex ==
  ReachedPayload =>
    IF options.sendMessageUnencrypted = "true"
    THEN /\ Events("call", "identity.encryptMessage") = {}
         /\ Len(locals.EncryptedMessageText) = 2 * Len(encodeUTF8ToBytes(params.Message))
         /\ \A i \in DOMAIN locals.EncryptedMessageText :
              IsLowerHexDigit(locals.EncryptedMessageText[i])
         /\ hexToBytes(locals.EncryptedMessageText) = encodeUTF8ToBytes(params.Message)
         /\ \A i \in PathCalls : calls[i].text = locals.EncryptedMessageText
    ELSE /\ Cardinality(Events("call", "identity.encryptMessage")) = 1
         /\ \A i \in Events("call", "identity.encryptMessage") :
              /\ calls[i].tag = locals.RecipientAccessGroupPublicKeyBase58Check
              /\ calls[i].text = params.Message
         /\ \A c \in EncryptAnswers :
              /\ (PathCalls = {} /\ Events("call", "handleSignAndSubmit") = {}) <=> c = <<>>
              /\ c = <<>> => result = Rejected("Failed to encrypt message")
              /\ \A i \in PathCalls : calls[i].text = c

\* C5 witness: the primitive returned an empty result and sendMessage failed.
C5_Witness ==
  /\ ReachedPayload
  /\ options.sendMessageUnencrypted # "true"
  /\ EncryptAnswers = {<<>>}
  /\ result.status = "rejected"

\* C5 witness of the other case: a two-byte character sent unencrypted has
\* been dispatched.
C5_WitnessHex ==
  /\ ReachedPayload
  /\ options.sendMessageUnencrypted = "true"
  /\ params.Message = <<233>>
  /\ PathCalls # {}

\* C6: when the directory lookup returns no sender access-group key name,
\* sendMessage fails with its error and neither the encryption primitive nor
\* a message path nor handleSignAndSubmit is invoked; the lookup always asks
\* for the sender's "default-key" group.
C6_NoDefaultGroupFails ==
  op = "sendMessage" =>
    /\ \A i \in Events("call", "checkPartyAccessGroups") : calls[i].sender = "default-key"
    /\ (Events("return", "checkPartyAccessGroups") # {}
          /\ locals.SenderAccessGroupKeyName = "") =>
         /\ result = Rejected("Sender does not have default messaging group")
         /\ pc = "done"
         /\ Events("call", "identity.encryptMessage") = {}
         /\ PathCalls = {}
         /\ Events("call", "handleSignAndSubmit") = {}

\* C6 witness: the lookup returned no sender key name for a group chat.
C6_Witness ==
  /\ op = "sendMessage"
  /\ params.AccessGroup.name = "book-club"
  /\ Events("return", "checkPartyAccessGroups") # {}
  /\ locals.SenderAccessGroupKeyName = ""

\* ---- constructDiamondTransaction

\* C7 as stated: constructDiamondTransaction ends, for every input, in a
\* rejection with the fixed error, and never calls constructBalanceModelTx.
C7_AlwaysRejectsWithFixedError ==
  op = "constructDiamondTransaction" =>
    /\ result = Rejected("Local construction for diamonds not supported yet.")
    /\ Events("call", "constructBalanceModelTx") = {}

\* What constructDiamondTransaction does guarantee: it never resolves
\* successfully and never calls constructBalanceModelTx; it rejects with the
\* fixed error when DiamondPostHashHex is a well-formed hex string and throws
\* the hex decoder's error synchronously when it is not.
DiamondNeverResolves ==
  op = "constructDiamondTransaction" =>
    /\ result.status # "fulfilled"
    /\ Events("call", "constructBalanceModelTx") = {}
    /\ IF Len(params.DiamondPostHashHex) % 2 = 0
          /\ \A i \in DOMAIN params.DiamondPostHashHex :
               IsHexDigit(params.DiamondPostHashHex[i])
       THEN result = Rejected("Local construction for diamonds not supported yet.")
       ELSE result.status = "thrown"

\* ---- submitPost

\* The call in flight is one that built the SubmitPost metadata and extra data.
BuiltSubmitPost ==
  /\ op \in {"submitPost", "constructSubmitPost"}
  /\ locals.metadata.kind = "SubmitPost"

\* The request is a pure repost: no body text, no image URL, no video URL.
PureRepost ==
  /\ params.BodyObj[1].value \in {NoValue, StrValue(<<>>)}
  /\ params.BodyObj[2].value \in {NoValue, ListValue(<<>>)}
  /\ params.BodyObj[3].value \in {NoValue, ListValue(<<>>)}

\* C8: the consensus extra data of a SubmitPost request is empty when the
\* request has no repost target hash; with one it is exactly the entries
\* "RecloutedPostHash" (the raw hash bytes) and "IsQuotedReclout", in this
\* order, the latter's value being the single byte 0 if and only if the body
\* text is empty and there are no image URLs and no video URLs, else 1.
C8_ConsensusKVs ==
  BuiltSubmitPost =>
    LET kvs == locals.extraDataKVs
        hash == params.RepostedPostHashHex
    IN  IF ~hash.present \/ hash.v = <<>>
        THEN kvs = <<>>
        ELSE /\ Len(kvs) = 2
             /\ kvs[1].key = StrRecloutedPostHash
             /\ bytesToHex(kvs[1].value) = hash.v
             /\ kvs[2].key = StrIsQuotedReclout
             /\ kvs[2].value = <<IF PureRepost THEN 0 ELSE 1>>

\* C8 witness: a repost with only a video URL, flagged as a quote.
C8_Witness ==
  /\ BuiltSubmitPost
  /\ params.RepostedPostHashHex = Some(HexAb12)
  /\ params.BodyObj[1].value = StrValue(<<>>)
  /\ params.BodyObj[2].value = ListValue(<<>>)
  /\ params.BodyObj[3].value # NoValue
  /\ params.BodyObj[3].value # ListValue(<<>>)
  /\ locals.extraDataKVs[2].value = <<1>>

\* Is the value one the spec keeps: a non-empty string or a non-empty list?
NonEmptyValue(value) ==
  \/ value.kind = "string" /\ value.str # <<>>
  \/ value.kind = "list" /\ value.list # <<>>

\* C9 as stated: the body embedded in the SubmitPost metadata is the JSON of
\* the request's body object without its empty strings and empty lists, every
\* non-empty string and non-empty list kept unchanged.
C9_BodyDropsEmptyFields ==
  BuiltSubmitPost =>
    locals.metadata.body =
      encodeUTF8ToBytes(JSONStringify(
        SelectSeq(params.BodyObj, LAMBDA pr : NonEmptyValue(pr.value))))

\* ---- message updates

\* The call in flight built the metadata of a message update.
BuiltMessageUpdate ==
  /\ op \in {"constructUpdateDMTransaction", "constructUpdateGroupChatMessageTransaction"}
  /\ locals.metadata.kind = "NewMessage"

\* C10 as stated: the metadata timestamp of a message update equals the
\* integer the caller's TimestampNanosString denotes, exactly: written back
\* as a decimal string it is the supplied string.
C10_UpdateTimestampExact ==
  BuiltMessageUpdate =>
    /\ locals.metadata.timestampNanos = DecimalValue(params.TimestampNanosString)
    /\ ToDecimalString(locals.metadata.timestampNanos) = params.TimestampNanosString

\* ---- profile updates

\* The two paths that build UpdateProfile metadata.
UpdateProfilePaths == {"updateProfile", "constructUpdateProfileTransaction"}

\* The call in flight built the metadata of a profile update.
BuiltUpdateProfile ==
  /\ op \in UpdateProfilePaths
  /\ locals.metadata.kind = "UpdateProfile"

\* The request in flight is a self-update.
SelfUpdate ==
  params.UpdaterPublicKeyBase58Check = params.ProfilePublicKeyBase58Check

C11_WitnessOtherProfile ==
  /\ op = "updateProfile"
  /\ pc = "awaitGuard"
  /\ ~SelfUpdate
  /\ locals.metadata.profilePublicKey = <<3, 178>>

\* ---- failures and the sign-and-submit routine

\* The public operations: the nine with an endpoint, and sendMessage, which
\* submits through sendDMMessage or sendGroupChatMessage.
PublicOperations == GuardedOperations \cup UnguardedOperations \cup {"sendMessage"}

\* The positions in calls at which a stage failed.
Throws == {i \in DOMAIN calls : calls[i].ev = "throw"}

\* The failure a call ends with when the stage fn fails.
FailureOf(fn) ==
  CASE fn = "getTxnWithFee" -> "FeeComputationFailure"
    [] fn = "guardTxPermission" -> "PermissionDenied"
    [] fn = "checkPartyAccessGroups" -> "LookupFailure"
    [] fn = "identity.encryptMessage" -> "EncryptionError"
    [] fn = "handleSignAndSubmit" -> "SubmissionFailure"

\* The operation whose body invokes handleSignAndSubmit in this call.
SubmittingOperation ==
  IF op = "sendMessage" THEN MessagePath(locals.AccessGroup) ELSE op

\* The invocations of the sign-and-submit routine in this call.
SubmitCalls == Events("call", "handleSignAndSubmit")

\* A stage before sign-and-submit failed: the call was rejected with a
\* failure other than the submission's.
EarlierStageFailed ==
  result.status = "rejected" /\ result.error # "SubmissionFailure"

\* C12: in every public operation a failing stage (fee computation,
\* permission guard, directory lookup, encryption, sign-and-submit) ends the
\* call with that stage's failure and nothing runs after it; a rejected call
\* has started no further stage; handleSignAndSubmit is invoked at most once
\* per call, with the endpoint of the operation invoking it, and exactly
\* once when the call is past every earlier stage and none of them failed.
C12_FailureAbortsSubmitOnce ==
  op \in PublicOperations =>
    /\ \A i \in Throws :
         /\ i = Len(calls)
         /\ pc = "done"
         /\ result = Rejected(FailureOf(calls[i].fn))
    /\ result.status = "rejected" =>
         /\ pc = "done"
         /\ calls # <<>> => calls[Len(calls)].ev # "call"
    /\ EarlierStageFailed => SubmitCalls = {}
    /\ Cardinality(SubmitCalls) <= 1
    /\ \A i \in SubmitCalls : calls[i].tag = Endpoint(SubmittingOperation)
    /\ pc \in {"awaitSubmit", "done"} /\ ~EarlierStageFailed =>
         Cardinality(SubmitCalls) = 1

\* C12 witness: the fee computation of updateProfile failed; the call ended
\* with that failure, the guard and handleSignAndSubmit never invoked.
C12_Witness ==
  /\ op = "updateProfile"
  /\ pc = "done"
  /\ calls = <<Threw("getTxnWithFee")>>
  /\ result = Rejected("FeeComputationFailure")

\* sendMessage ended by a failing encryption, after the lookup returned.
C12_WitnessEncryptionFails ==
  /\ op = "sendMessage"
  /\ Events("return", "checkPartyAccessGroups") # {}
  /\ Events("throw", "identity.encryptMessage") # {}
  /\ SubmitCalls = {}
  /\ result = Rejected("EncryptionError")

\* sendMessage fulfilled after every stage succeeded, handleSignAndSubmit
\* invoked once with the group-chat endpoint.
C12_WitnessSubmittedOnce ==
  /\ op = "sendMessage"
  /\ result = Fulfilled
  /\ Events("return", "identity.encryptMessage") # {}
  /\ Cardinality(SubmitCalls) = 1
  /\ \A i \in SubmitCalls : calls[i].tag = "api/v0/send-group-chat-message"

====
